---- MODULE Spec2Model ----
(***************************************************************************)
(* A model of nctotdb/writers.py: TDBWriter (TileDB backend) and           *)
(* ZarrWriter (zarr backend).  The writers' methods are operators that     *)
(* take the storage before the call and return the outcome of the call     *)
(* (the exception that ended it, or "ok") with the storage after it; the   *)
(* actions apply them to inputs drawn from small sets.                     *)
(*                                                                         *)
(* Python values of more than one type are tagged records:                 *)
(*   unlimited_dims  [kind |-> "None"] or [kind |-> "list", val |-> seq]   *)
(*   start_index     [kind |-> "int", val |-> n] or [kind |-> "list", ...] *)
(* A path is the sequence of its components; the label f'domain_{i}' is    *)
(* the pair <<"domain_", i>>.                                              *)
(***************************************************************************)
EXTENDS Integers, Sequences, FiniteSets, TLC

VARIABLES self,      \* the TDBWriter (and, in SpecEquiv, the ZarrWriter's data model)
          fs,        \* the TileDB storage: directories, groups, arrays
          zgroup,    \* ZarrWriter.group: the zarr datasets by name
          last,      \* the last call: its name, inputs and outcome
          ncalls,    \* append calls made so far
          ndirect    \* direct calls of the writers' helper methods so far

vars == <<self, fs, zgroup, last, ncalls, ndirect>>

(***************************************************************************)
(* Bounds of the model.                                                    *)
(***************************************************************************)
\* Width in bits of the dimension coordinate type (np.int64 scaled down so
\* that its ceiling is within the model checker's integers).
CoordBits == 5
\* Longest dimension of a data model in Spec.
MaxLen == 2
\* Calls after the construction, create_domains and create_zarr apart, in one
\* behaviour.
MaxCalls == 2

\* np.iinfo(np.int64).max at the model's coordinate width.
INT64_MAX == 2^(CoordBits - 1) - 1

Min(a, b) == IF a < b THEN a ELSE b

\* x in seq (Python's `in` on a tuple or list).
InSeq(x, s) == \E i \in 1..Len(s) : s[i] = x

\* tuple.index(x): the first position (0-based) holding x.
IndexOf(x, s) == (CHOOSE i \in 1..Len(s) : s[i] = x /\ \A j \in 1..(i-1) : s[j] # x) - 1

\* The coordinates of a block of the given shape at the origin.
RECURSIVE Box(_)
Box(shape) ==
    IF shape = <<>> THEN {<<>>}
    ELSE {<<i>> \o r : i \in 0..(Head(shape) - 1), r \in Box(Tail(shape))}

\* Coordinate c shifted by the per-dimension starts of the slices.
Shift(c, slices) == [i \in 1..Len(c) |-> c[i] + slices[i].start]

(***************************************************************************)
(* The data model (NCDataModel), the writers' collaborator.  Its code is   *)
(* not in writers.py; it is modelled from the interface the specification  *)
(* gives (sections 3, 4.1 and 6).  A data model is built from parameters   *)
(*   vars     the data variables of the file                               *)
(*   variant  "ok" | "transposed" | "dropdim": the dimensions of `temp`    *)
(*   len      the length of each dimension                                 *)
(*   unlim    the dimensions the file declares unlimited                   *)
(*   attrs    "a" | "b": which attribute set the variables carry           *)
(*   tag      labels the payload: cell c of variable v holds <<tag, v, c>> *)
(***************************************************************************)
DimNames == {"t", "x"}
FileOrder == <<"temp", "pres", "h", "ts">>

VarDimensions(v, variant) ==
    CASE v = "temp" /\ variant = "ok" -> <<"t", "x">>
      [] v = "temp" /\ variant = "transposed" -> <<"x", "t">>
      [] v = "temp" /\ variant = "dropdim" -> <<"x">>
      [] v = "pres" -> <<"t", "x">>
      [] v = "h" -> <<"x">>
      [] v = "ts" -> <<"t">>
      [] v \in DimNames -> <<v>>

VarAttrs(v, attrs) ==
    IF v \in DimNames THEN [axis |-> v]
    ELSE IF attrs = "a" THEN [units |-> "K"]
    ELSE [units |-> "C", note |-> "new"]

Variable(p, v) ==
    LET dims == VarDimensions(v, p.variant)
        shape == [i \in 1..Len(dims) |-> p.len[dims[i]]]
    IN [name |-> v,
        dimensions |-> dims,
        shape |-> shape,
        dtype |-> IF v \in DimNames THEN "int32" ELSE "float32",
        attrs |-> VarAttrs(v, p.attrs),
        data |-> [c \in Box(shape) |-> <<p.tag, v, c>>]]

\* Domain Grouper (specification 4.1): the distinct ordered dimension tuples, in
\* first-seen order over the data variables.
RECURSIVE Distinct(_)
Distinct(s) ==
    IF s = <<>> THEN <<>>
    ELSE LET front == Distinct(SubSeq(s, 1, Len(s) - 1))
             x == s[Len(s)]
         IN IF InSeq(x, front) THEN front ELSE Append(front, x)

NCDataModel(p) ==
    LET names == SelectSeq(FileOrder, LAMBDA v : v \in p.vars)
        dimsOf == [i \in 1..Len(names) |-> VarDimensions(names[i], p.variant)]
        domains == Distinct(dimsOf)
    IN [data_var_names |-> names,
        domains |-> domains,
        domain_varname_mapping |->
            [d \in {domains[i] : i \in 1..Len(domains)} |->
                SelectSeq(names, LAMBDA v : VarDimensions(v, p.variant) = d)],
        varname_domain_mapping |->
            [v \in p.vars |-> VarDimensions(v, p.variant)],
        _ncds_vars |-> [v \in p.vars \cup DimNames |-> Variable(p, v)],
        unlimited_dim_coords |-> p.unlim,
        params |-> p]

\* data_model.get_chunks(name): the declared chunk size of a dimension, or the
\* chunk sizes of a data variable, one per dimension.
DimChunk(data_model, dim_name) ==
    IF data_model.params.len[dim_name] >= 2 THEN 2 ELSE 1

get_chunks(data_model, name) ==
    IF name \in DimNames THEN DimChunk(data_model, name)
    ELSE LET dims == data_model._ncds_vars[name].dimensions
         IN [i \in 1..Len(dims) |-> DimChunk(data_model, dims[i])]

(***************************************************************************)
(* The storage backends, as the writers use them.                          *)
(***************************************************************************)
NoCells == [c \in {} |-> <<>>]
NoMeta == [k \in {} |-> ""]
EmptyFS == [dirs |-> {}, groups |-> {}, arrays |-> [a \in {} |-> <<>>]]

\* The outcome of a call: the exception that ended it ("ok": none), the backend
\* call that raised it, the storage after it, and the writes A[indices] = data
\* it performed, in order.
Outcome(status, at, store, writes) ==
    [status |-> status, at |-> at, fs |-> store, writes |-> writes]

\* os.makedirs(group_dirname)
os_makedirs(store, dirname) ==
    IF dirname \in store.dirs
    THEN Outcome("FileExistsError", "os.makedirs", store, <<>>)
    ELSE Outcome("ok", "", [store EXCEPT !.dirs = @ \cup {dirname}], <<>>)

\* tiledb.group_create(group_dirname).  Whether the backend accepts a path that
\* is a group already is the backend's matter: `tolerant` is that answer.
tiledb_group_create(store, dirname, tolerant) ==
    IF dirname \in store.groups /\ ~tolerant
    THEN Outcome("TileDBError", "tiledb.group_create", store, <<>>)
    ELSE Outcome("ok", "", [store EXCEPT !.groups = @ \cup {dirname},
                                         !.dirs = @ \cup {dirname}], <<>>)

\* tiledb.Array.create(array_filename, schema): an empty array; an error when
\* the path holds an array already.
tiledb_Array_create(store, array_filename, schema) ==
    IF array_filename \in DOMAIN store.arrays
    THEN Outcome("TileDBError", "tiledb.Array.create", store, <<>>)
    ELSE Outcome("ok", "",
                 [store EXCEPT !.arrays =
                     (array_filename :> [schema |-> schema, cells |-> NoCells,
                                         meta |-> NoMeta]) @@ @],
                 <<>>)

\* A[write_indices] = data on a dense array: one slice per dimension of the
\* array, each within the dimension's domain.
InBounds(schema, write_indices) ==
    /\ Len(write_indices) = Len(schema.domain)
    /\ \A i \in 1..Len(write_indices) :
          write_indices[i].start < write_indices[i].stop =>
             /\ schema.domain[i].domain[1] <= write_indices[i].start
             /\ write_indices[i].stop - 1 <= schema.domain[i].domain[2]

WriteCells(cells, write_indices, data) ==
    [c \in {Shift(d, write_indices) : d \in DOMAIN data} |->
        data[CHOOSE d \in DOMAIN data : Shift(d, write_indices) = c]] @@ cells

\* The array's non-empty domain along dimension i (1-based), as a length: one
\* more than the largest coordinate written.
Extent(array, i) ==
    IF DOMAIN array.cells = {} THEN 0
    ELSE 1 + (CHOOSE m \in {c[i] : c \in DOMAIN array.cells} :
                 \A c \in DOMAIN array.cells : c[i] <= m)

(***************************************************************************)
(* TDBWriter                                                               *)
(***************************************************************************)
\* TDBWriter.__init__
TDBWriter(data_model, tiledb_filepath, tiledb_array_name, unlimited_dims) ==
    [data_model |-> data_model,
     tiledb_filepath |-> tiledb_filepath,
     unlimited_dims |-> unlimited_dims,
     array_name |-> IF tiledb_array_name.kind = "None"
                    THEN data_model.params.stem
                    ELSE tiledb_array_name.val]

\* TDBWriter._public_domain_name
_public_domain_name(w, domain) ==
    <<"domain_", IndexOf(domain, w.data_model.domains)>>

\* _create_tdb_directory without the except clause.
create_tdb_directory_raising(store, group_dirname) ==
    os_makedirs(store, group_dirname)

\* TDBWriter._create_tdb_directory: FileExistsError is swallowed.
_create_tdb_directory(store, group_dirname) ==
    LET made == os_makedirs(store, group_dirname)
    IN IF made.status = "FileExistsError" THEN Outcome("ok", "", store, <<>>)
       ELSE made

\* _create_tdb_dim without the elif branch: only the configured dimensions
\* are given headroom.
create_tdb_dim_configured_only(w, dim_name) ==
    LET dim_coord_len == w.data_model._ncds_vars[dim_name].shape[1]
    IN IF w.unlimited_dims.kind = "None"
       THEN [status |-> "TypeError"]
       ELSE [status |-> "ok",
             name |-> dim_name,
             domain |-> <<0, IF InSeq(dim_name, w.unlimited_dims.val)
                             THEN INT64_MAX - dim_coord_len
                             ELSE dim_coord_len>>,
             tile |-> get_chunks(w.data_model, dim_name),
             dtype |-> "int64"]

\* TDBWriter._create_tdb_dim: the tiledb.Dim, or the exception raised.
_create_tdb_dim(w, dim_name) ==
    LET dim_coord == w.data_model._ncds_vars[dim_name]
        chunks == get_chunks(w.data_model, dim_name)
        dim_coord_len == dim_coord.shape[1]
        dim_dtype == "int64"
    IN IF w.unlimited_dims.kind = "None"
       THEN [status |-> "TypeError"]
       ELSE LET domain_max ==
                    IF InSeq(dim_name, w.unlimited_dims.val)
                    THEN INT64_MAX - dim_coord_len
                    ELSE IF dim_name \in w.data_model.unlimited_dim_coords
                    THEN INT64_MAX - dim_coord_len
                    ELSE dim_coord_len
            IN [status |-> "ok",
                name |-> dim_name,
                domain |-> <<0, domain_max>>,
                tile |-> chunks,
                dtype |-> dim_dtype]

\* TDBWriter.create_domain_arrays, from the i-th variable of the domain on.
RECURSIVE create_domain_arrays_from(_, _, _, _, _)
create_domain_arrays_from(w, store, domain_vars, group_dirname, i) ==
    IF i > Len(domain_vars) THEN Outcome("ok", "", store, <<>>)
    ELSE
      LET var_name == domain_vars[i]
          data_var == w.data_model._ncds_vars[var_name]
          data_var_dims == data_var.dimensions
          array_dims == [k \in 1..Len(data_var_dims) |->
                            _create_tdb_dim(w, data_var_dims[k])]
          attr == [name |-> var_name, dtype |-> data_var.dtype]
          array_filename == Append(group_dirname, var_name)
          schema == [domain |-> array_dims, sparse |-> FALSE, attrs |-> <<attr>>]
      IN IF \E k \in 1..Len(array_dims) : array_dims[k].status # "ok"
         THEN Outcome("TypeError", "_create_tdb_dim", store, <<>>)
         ELSE LET created == tiledb_Array_create(store, array_filename, schema)
              IN IF created.status # "ok" THEN created
                 ELSE create_domain_arrays_from(w, created.fs, domain_vars,
                                                group_dirname, i + 1)

create_domain_arrays(w, store, domain_vars, group_dirname) ==
    create_domain_arrays_from(w, store, domain_vars, group_dirname, 1)

\* _array_indices counting a scalar start_index from one.
array_indices_from_one(data_var, start_index) ==
    LET shape == data_var.shape
        starts == IF start_index.kind = "int"
                  THEN [i \in 1..Len(shape) |-> start_index.val + 1]
                  ELSE start_index.val
    IN [i \in 1..Min(Len(shape), Len(starts)) |->
           [start |-> starts[i], stop |-> shape[i] + starts[i]]]

\* TDBWriter._array_indices: one slice per dimension; zip stops at the shorter
\* of shape and start_index.
_array_indices(data_var, start_index) ==
    LET shape == data_var.shape
        starts == IF start_index.kind = "int"
                  THEN [i \in 1..Len(shape) |-> start_index.val]
                  ELSE start_index.val
    IN [i \in 1..Min(Len(shape), Len(starts)) |->
           [start |-> starts[i], stop |-> shape[i] + starts[i]]]

\* TDBWriter.populate_array
populate_array(w, store, var_name, data_var, group_dirname, start_index, write_meta) ==
    LET array_filename == Append(group_dirname, data_var.name)
    IN IF array_filename \notin DOMAIN store.arrays
       THEN Outcome("TileDBError", "tiledb.open", store, <<>>)
       ELSE
         LET A == store.arrays[array_filename]
             write_indices == _array_indices(data_var, start_index)
         IN IF ~(Len(write_indices) = Len(data_var.shape)
                 /\ InBounds(A.schema, write_indices))
            THEN Outcome("TileDBError", "A[write_indices]", store, <<>>)
            ELSE
              LET written == WriteCells(A.cells, write_indices, data_var.data)
                  meta == IF write_meta THEN data_var.attrs @@ A.meta ELSE A.meta
              IN Outcome("ok", "",
                         [store EXCEPT !.arrays[array_filename] =
                             [@ EXCEPT !.cells = written, !.meta = meta]],
                         <<[array |-> array_filename, indices |-> write_indices]>>)

\* TDBWriter.populate_domain_arrays, from the i-th variable of the domain on.
RECURSIVE populate_domain_arrays_from(_, _, _, _, _)
populate_domain_arrays_from(w, store, domain_vars, group_dirname, i) ==
    IF i > Len(domain_vars) THEN Outcome("ok", "", store, <<>>)
    ELSE
      LET var_name == domain_vars[i]
          data_var == w.data_model._ncds_vars[var_name]
          done == populate_array(w, store, var_name, data_var, group_dirname,
                                 [kind |-> "int", val |-> 0], TRUE)
      IN IF done.status # "ok" THEN done
         ELSE LET rest == populate_domain_arrays_from(w, done.fs, domain_vars,
                                                      group_dirname, i + 1)
              IN [rest EXCEPT !.writes = done.writes \o @]

populate_domain_arrays(w, store, domain_vars, group_dirname) ==
    populate_domain_arrays_from(w, store, domain_vars, group_dirname, 1)

\* The group directory create_domains makes for a domain.
CreateGroupDirname(w, domain) ==
    <<w.tiledb_filepath, w.array_name, _public_domain_name(w, domain)>>

\* TDBWriter.create_domains, from the i-th domain on.
RECURSIVE create_domains_from(_, _, _, _)
create_domains_from(w, store, tolerant, i) ==
    IF i > Len(w.data_model.domains) THEN Outcome("ok", "", store, <<>>)
    ELSE
      LET domain == w.data_model.domains[i]
          domain_vars == w.data_model.domain_varname_mapping[domain]
          group_dirname == CreateGroupDirname(w, domain)
          dir == _create_tdb_directory(store, group_dirname)
          grp == tiledb_group_create(dir.fs, group_dirname, tolerant)
          arr == create_domain_arrays(w, grp.fs, domain_vars, group_dirname)
          pop == populate_domain_arrays(w, arr.fs, domain_vars, group_dirname)
      IN IF dir.status # "ok" THEN dir
         ELSE IF grp.status # "ok" THEN grp
         ELSE IF arr.status # "ok" THEN arr
         ELSE IF pop.status # "ok" THEN pop
         ELSE LET rest == create_domains_from(w, pop.fs, tolerant, i + 1)
              IN [rest EXCEPT !.writes = pop.writes \o @]

create_domains(w, store, tolerant) == create_domains_from(w, store, tolerant, 1)

\* The sanity checks of append without the comparison of the dimension tuples.
append_checks_without_tuples(w, other_data_model, var_name, append_dim) ==
    /\ InSeq(var_name, w.data_model.data_var_names)
    /\ InSeq(var_name, other_data_model.data_var_names)
    /\ InSeq(append_dim, w.data_model._ncds_vars[var_name].dimensions)
    /\ InSeq(append_dim, other_data_model._ncds_vars[var_name].dimensions)

\* TDBWriter.append, the sanity checks: TRUE when no assertion fails.
append_checks(w, other_data_model, var_name, append_dim) ==
    /\ InSeq(var_name, w.data_model.data_var_names)
    /\ InSeq(var_name, other_data_model.data_var_names)
    /\ LET self_data_var == w.data_model._ncds_vars[var_name]
           other_data_var == other_data_model._ncds_vars[var_name]
       IN /\ InSeq(append_dim, self_data_var.dimensions)
          /\ InSeq(append_dim, other_data_var.dimensions)
          /\ self_data_var.dimensions = other_data_var.dimensions

\* The array path of append with the label of the first domain kept for
\* every variable.
append_domain_path_first_label(w, var_name) ==
    <<w.tiledb_filepath, w.array_name, <<"domain_", 0>>>>

\* TDBWriter.append, the tiledb array path of the variable's domain.
append_domain_path(w, var_name) ==
    LET domain == w.data_model.varname_domain_mapping[var_name]
        domain_name == _public_domain_name(w, domain)
    IN <<w.tiledb_filepath, w.array_name, domain_name>>

\* TDBWriter.append, the offset vector: the length of the writer's own
\* variable along the append dimension, in that dimension's slot.
append_offsets(w, var_name, append_dim) ==
    LET self_data_var == w.data_model._ncds_vars[var_name]
        append_index == IndexOf(append_dim, self_data_var.dimensions) + 1
        append_dim_offset == self_data_var.shape[append_index]
    IN [i \in 1..Len(self_data_var.shape) |->
           IF i = append_index THEN append_dim_offset ELSE 0]

\* append with populate_array's default write_meta.
append_writing_meta(w, store, other_data_model, var_name, append_dim) ==
    IF ~append_checks(w, other_data_model, var_name, append_dim)
    THEN Outcome("AssertionError", "assert", store, <<>>)
    ELSE populate_array(w, store, var_name,
                        other_data_model._ncds_vars[var_name],
                        append_domain_path(w, var_name),
                        [kind |-> "list",
                         val |-> append_offsets(w, var_name, append_dim)],
                        TRUE)

\* TDBWriter.append
append(w, store, other_data_model, var_name, append_dim) ==
    IF ~append_checks(w, other_data_model, var_name, append_dim)
    THEN Outcome("AssertionError", "assert", store, <<>>)
    ELSE populate_array(w, store, var_name,
                        other_data_model._ncds_vars[var_name],
                        append_domain_path(w, var_name),
                        [kind |-> "list",
                         val |-> append_offsets(w, var_name, append_dim)],
                        FALSE)

(***************************************************************************)
(* Inputs.                                                                 *)
(***************************************************************************)
None == [kind |-> "None"]
List(s) == [kind |-> "list", val |-> s]

\* The parameters of the writer's data model in Spec: three data variables in
\* two domains, `t` unlimited in the file or not.
SelfParams ==
    {[vars |-> {"temp", "pres", "h"}, variant |-> "ok",
      len |-> [t |-> tl, x |-> xl], unlim |-> u,
      attrs |-> "a", tag |-> 0, stem |-> "ds"] :
        tl \in 1..MaxLen, xl \in {1, 2}, u \in {{}, {"t"}}}

\* The writer configurations: unlimited_dims left out, empty, or naming `t`
\* (the last two with a file that does not declare `t` unlimited itself).
Writers ==
    {TDBWriter(NCDataModel(p), "out", None, List(<<>>)) : p \in SelfParams}
    \cup {TDBWriter(NCDataModel(p), "out", None, ud) :
            p \in {q \in SelfParams : q.unlim = {}},
            ud \in {None, List(<<"t">>)}}

\* The output location before the first call: empty, or holding already the
\* (plain, empty) directory of the first domain.
InitialStores ==
    {EmptyFS, [EmptyFS EXCEPT !.dirs = {<<"out", "ds", <<"domain_", 0>>>>}]}

\* The new data models offered to the n-th append: the same variables with
\* M further steps of `t`, or one that lacks `temp`, or has it over other
\* dimensions.
OtherParams(w, n) ==
    LET sp == w.data_model.params
        base == [sp EXCEPT !.attrs = "b", !.tag = n, !.len.t = 1]
    IN {[base EXCEPT !.len.t = m] : m \in 1..MaxLen}
       \cup {[base EXCEPT !.vars = @ \ {"temp"}],
             [base EXCEPT !.variant = "transposed"],
             [base EXCEPT !.variant = "dropdim"]}

\* The variable names append is called with.
VarNames == {"temp", "h", "nope"}

NoCall == [op |-> "none", status |-> "ok", at |-> "", writes |-> <<>>,
           var_name |-> "", append_dim |-> "", other |-> <<>>,
           zstatus |-> "ok", agree |-> TRUE]

(***************************************************************************)
(* Spec: one TDBWriter and its storage.                                    *)
(***************************************************************************)
Init ==
    /\ self \in Writers
    /\ fs \in InitialStores
    /\ zgroup = None
    /\ last = NoCall
    /\ ncalls = 0
    /\ ndirect = 0

\* writer.create_domains()
CreateCall ==
    \E tolerant \in BOOLEAN :
        LET r == create_domains(self, fs, tolerant)
        IN /\ fs' = r.fs
           /\ last' = [NoCall EXCEPT !.op = "create_domains", !.status = r.status,
                                     !.at = r.at, !.writes = r.writes]
           /\ UNCHANGED <<self, zgroup, ncalls, ndirect>>

\* writer.append(other_data_model, var_name, append_dim)
AppendWith(op, var_name, append_dim) ==
    LET other == NCDataModel(op)
        r == append(self, fs, other, var_name, append_dim)
    IN /\ fs' = r.fs
       /\ last' = [op |-> "append", status |-> r.status, at |-> r.at,
                   writes |-> r.writes, var_name |-> var_name,
                   append_dim |-> append_dim, other |-> op,
                   zstatus |-> "ok", agree |-> TRUE]
       /\ ncalls' = ncalls + 1
       /\ UNCHANGED <<self, zgroup, ndirect>>

AppendCall ==
    /\ ncalls + ndirect < MaxCalls
    /\ \E op \in OtherParams(self, ncalls + ndirect + 1), var_name \in VarNames,
          append_dim \in DimNames :
            AppendWith(op, var_name, append_dim)

\* The helper methods are public too.  A direct call is recorded by its name
\* and outcome.
DirectCall(name, r) ==
    /\ fs' = r.fs
    /\ last' = [NoCall EXCEPT !.op = name, !.status = r.status, !.at = r.at,
                              !.writes = r.writes]
    /\ ndirect' = ndirect + 1
    /\ UNCHANGED <<self, zgroup, ncalls>>

\* The variables populate_array is called with directly.
DirectVars(w) ==
    {w.data_model.data_var_names[i] :
        i \in 1..Len(w.data_model.data_var_names)} \ {"pres"}

\* writer.populate_array(var_name, data_var, group_dirname[, write_meta]) with
\* a variable of the writer's data model or of a new one, in the directory of
\* the variable's domain, start_index left at its default.
PopulateArrayWith(n) ==
    \E v \in DirectVars(self), write_meta \in BOOLEAN,
       p \in {self.data_model.params,
              [self.data_model.params EXCEPT !.attrs = "b", !.tag = n, !.len.t = 1]} :
        DirectCall("populate_array",
                   populate_array(self, fs, v, NCDataModel(p)._ncds_vars[v],
                                  CreateGroupDirname(self,
                                      self.data_model._ncds_vars[v].dimensions),
                                  [kind |-> "int", val |-> 0], write_meta))

\* writer.create_domain_arrays(domain_vars, group_dirname) for a domain of
\* the data model.
CreateDomainArraysWith ==
    \E i \in 1..Len(self.data_model.domains) :
        LET domain == self.data_model.domains[i]
        IN DirectCall("create_domain_arrays",
                      create_domain_arrays(self, fs,
                          self.data_model.domain_varname_mapping[domain],
                          CreateGroupDirname(self, domain)))

\* writer.populate_domain_arrays(domain_vars, group_dirname) for a domain of
\* the data model.
PopulateDomainArraysWith ==
    \E i \in 1..Len(self.data_model.domains) :
        LET domain == self.data_model.domains[i]
        IN DirectCall("populate_domain_arrays",
                      populate_domain_arrays(self, fs,
                          self.data_model.domain_varname_mapping[domain],
                          CreateGroupDirname(self, domain)))

PopulateArrayCall ==
    /\ ncalls + ndirect < MaxCalls
    /\ PopulateArrayWith(ncalls + ndirect + 1)

CreateDomainArraysCall ==
    /\ ncalls + ndirect < MaxCalls
    /\ CreateDomainArraysWith

PopulateDomainArraysCall ==
    /\ ncalls + ndirect < MaxCalls
    /\ PopulateDomainArraysWith

Next ==
    \/ CreateCall
    \/ AppendCall
    \/ PopulateArrayCall
    \/ CreateDomainArraysCall
    \/ PopulateDomainArraysCall

Spec == Init /\ [][Next]_vars

(***************************************************************************)
(* ZarrWriter, built with group_name None (given a group_name, __init__    *)
(* reads self.group_name before it is set).  self.group is None before     *)
(* create_zarr, then the datasets of the group by name.                    *)
(***************************************************************************)
ZOutcome(status, group) == [status |-> status, group |-> group]

\* group.create_dataset(name, shape, chunks, dtype); data_array[:] = data;
\* data_array.attrs[...] = ...: one dataset of ZarrWriter.create_variable_datasets.
create_variable_dataset(data_model, group, var_name) ==
    LET nc_data_var == data_model._ncds_vars[var_name]
        chunks == get_chunks(data_model, var_name)
        attrs == [_ARRAY_DIMENSIONS |-> nc_data_var.dimensions] @@
                 nc_data_var.attrs
    IN IF var_name \notin DOMAIN data_model._ncds_vars
       THEN ZOutcome("KeyError", group)
       ELSE IF group.kind = "None"
       THEN ZOutcome("AttributeError", group)
       ELSE IF var_name \in DOMAIN group.arrays
       THEN ZOutcome("ContainsArrayError", group)
       ELSE ZOutcome("ok",
                [group EXCEPT !.arrays =
                    (var_name :> [shape |-> nc_data_var.shape,
                                  chunks |-> chunks,
                                  dtype |-> nc_data_var.dtype,
                                  cells |-> nc_data_var.data,
                                  attrs |-> attrs]) @@ @])

\* ZarrWriter.create_variable_datasets, from the i-th name on.
RECURSIVE create_variable_datasets_from(_, _, _, _)
create_variable_datasets_from(data_model, group, var_names, i) ==
    IF i > Len(var_names) THEN ZOutcome("ok", group)
    ELSE LET one == create_variable_dataset(data_model, group, var_names[i])
         IN IF one.status # "ok" THEN one
            ELSE create_variable_datasets_from(data_model, one.group, var_names, i + 1)

create_variable_datasets(data_model, group, var_names) ==
    create_variable_datasets_from(data_model, group, var_names, 1)

\* ZarrWriter.create_zarr, the loop over the domains from the i-th on.
RECURSIVE create_zarr_domains_from(_, _, _)
create_zarr_domains_from(data_model, group, i) ==
    IF i > Len(data_model.domains) THEN ZOutcome("ok", group)
    ELSE LET domain_vars == data_model.domain_varname_mapping[data_model.domains[i]]
             one == create_variable_datasets(data_model, group, domain_vars)
         IN IF one.status # "ok" THEN one
            ELSE create_zarr_domains_from(data_model, one.group, i + 1)

\* set([k for domain in keys for k in domain]): the dimension names of the
\* domains of the data model.
unique_flat_keys(data_model) ==
    LET keys == {data_model.domains[i] : i \in 1..Len(data_model.domains)}
    IN UNION {{d[k] : k \in 1..Len(d)} : d \in keys}

\* The orders in which the iteration over a set can yield its elements: the
\* order of a Python set of strings depends on the hash seed of the run.
SetOrders(S) ==
    {order \in [1..Cardinality(S) -> S] :
        \A i, j \in 1..Cardinality(S) : i # j => order[i] # order[j]}

\* ZarrWriter.create_zarr: zarr.group opens the store (keeping what it holds),
\* then the data variables by domain, then the dimension variables in the
\* order the iteration over the set yields them.
create_zarr(data_model, group, order) ==
    LET opened == IF group.kind = "None"
                  THEN [kind |-> "group", arrays |-> [a \in {} |-> <<>>]]
                  ELSE group
        data == create_zarr_domains_from(data_model, opened, 1)
    IN IF data.status # "ok" THEN data
       ELSE create_variable_datasets(data_model, data.group, order)

\* zarr's Array.append(data, axis=0): every dimension but the first must match;
\* the array is resized and the data written after its old end.
zarr_Array_append(array, data_var) ==
    LET old == array.shape
        new == data_var.shape
        compatible == /\ Len(old) = Len(new)
                      /\ \A i \in 2..Len(old) : old[i] = new[i]
        at == [i \in 1..Len(old) |->
                  [start |-> IF i = 1 THEN old[1] ELSE 0,
                   stop |-> IF i = 1 THEN old[1] + new[1] ELSE new[i]]]
    IN IF ~compatible THEN [status |-> "ValueError", array |-> array]
       ELSE [status |-> "ok",
             array |-> [array EXCEPT
                          !.shape = [i \in 1..Len(old) |->
                                        IF i = 1 THEN old[1] + new[1] ELSE old[i]],
                          !.cells = WriteCells(@, at, data_var.data)]]

\* ZarrWriter.append, the loop over group_names from the i-th on.
RECURSIVE zarr_append_from(_, _, _, _)
zarr_append_from(group, other_data_model, group_names, i) ==
    IF i > Len(group_names) THEN ZOutcome("ok", group)
    ELSE
      LET group_name == group_names[i]
      IN IF group.kind = "None" \/ group_name \notin DOMAIN group.arrays
         THEN ZOutcome("AttributeError", group)
         ELSE IF group_name \notin DOMAIN other_data_model._ncds_vars
         THEN ZOutcome("KeyError", group)
         ELSE LET one == zarr_Array_append(group.arrays[group_name],
                                           other_data_model._ncds_vars[group_name])
              IN IF one.status # "ok" THEN ZOutcome(one.status, group)
                 ELSE zarr_append_from(
                         [group EXCEPT !.arrays[group_name] = one.array],
                         other_data_model, group_names, i + 1)

\* ZarrWriter.append(other_data_model, group_name): group_name is None or
\* [kind |-> "str", val |-> name].
zarr_append(data_model, group, other_data_model, group_name) ==
    LET names_ok == IF group_name.kind # "None"
                    THEN InSeq(group_name.val, data_model.data_var_names)
                    ELSE data_model.data_var_names = other_data_model.data_var_names
        group_names == IF group_name.kind = "None"
                       THEN other_data_model.data_var_names
                       ELSE <<group_name.val>>
    IN IF ~names_ok THEN ZOutcome("AssertionError", group)
       ELSE zarr_append_from(group, other_data_model, group_names, 1)

(***************************************************************************)
(* SpecEquiv: a TDBWriter and a ZarrWriter over the same data model, given *)
(* the same calls: create, then appends of the same new data model along   *)
(* the first dimension of a variable.                                      *)
(***************************************************************************)
Str(v) == [kind |-> "str", val |-> v]

EqCreate ==
    /\ \E tolerant \in BOOLEAN,
          order \in SetOrders(unique_flat_keys(self.data_model)) :
        LET r == create_domains(self, fs, tolerant)
            z == create_zarr(self.data_model, zgroup, order)
        IN /\ fs' = r.fs
           /\ zgroup' = z.group
           /\ last' = [NoCall EXCEPT !.op = "create", !.status = r.status,
                                     !.at = r.at, !.writes = r.writes,
                                     !.zstatus = z.status,
                                     !.agree = (r.status = "ok" /\ z.status = "ok")]
           /\ UNCHANGED <<self, ncalls, ndirect>>

EqAppend ==
    /\ zgroup.kind # "None"
    /\ ncalls + ndirect < MaxCalls
    /\ \E params \in OtherParams(self, ncalls + ndirect + 1),
          i \in 1..Len(self.data_model.data_var_names) :
        LET var_name == self.data_model.data_var_names[i]
            append_dim == self.data_model._ncds_vars[var_name].dimensions[1]
            other == NCDataModel(params)
            r == append(self, fs, other, var_name, append_dim)
            z == zarr_append(self.data_model, zgroup, other, Str(var_name))
        IN /\ fs' = r.fs
           /\ zgroup' = z.group
           /\ last' = [op |-> "append", status |-> r.status, at |-> r.at,
                       writes |-> r.writes, var_name |-> var_name,
                       append_dim |-> append_dim, other |-> params,
                       zstatus |-> z.status,
                       agree |-> (last.agree /\ r.status = "ok" /\ z.status = "ok")]
           /\ ncalls' = ncalls + 1
           /\ UNCHANGED <<self, ndirect>>

\* zarr_writer.create_variable_datasets(var_names), called directly with the
\* variables of a domain of the data model or with a name it does not hold.
ZarrCreateVariableDatasetsCall ==
    /\ ncalls + ndirect < MaxCalls
    /\ \E var_names \in
            {self.data_model.domain_varname_mapping[self.data_model.domains[i]] :
                i \in 1..Len(self.data_model.domains)} \cup {<<"nope">>} :
        LET z == create_variable_datasets(self.data_model, zgroup, var_names)
        IN /\ zgroup' = z.group
           /\ last' = [NoCall EXCEPT !.op = "create_variable_datasets",
                                     !.zstatus = z.status, !.agree = FALSE]
           /\ ndirect' = ndirect + 1
           /\ UNCHANGED <<self, fs, ncalls>>

NextEquiv ==
    \/ EqCreate
    \/ EqAppend
    \/ PopulateArrayCall
    \/ CreateDomainArraysCall
    \/ PopulateDomainArraysCall
    \/ ZarrCreateVariableDatasetsCall

SpecEquiv == Init /\ [][NextEquiv]_vars

(***************************************************************************)
(* SpecHeadroom: a writer over one series `ts` along `t`, of any length    *)
(* the coordinate type can hold, created and then extended once by a new   *)
(* data model of up to the same length.                                    *)
(***************************************************************************)
HeadroomParams ==
    {[vars |-> {"ts"}, variant |-> "ok", len |-> [t |-> n, x |-> 1],
      unlim |-> u, attrs |-> "a", tag |-> 0, stem |-> "ds"] :
        n \in 1..INT64_MAX, u \in {{}, {"t"}}}

HeadroomWriters ==
    {TDBWriter(NCDataModel(p), "out", None, List(<<>>)) : p \in HeadroomParams}
    \cup {TDBWriter(NCDataModel(p), "out", None, List(<<"t">>)) :
            p \in {q \in HeadroomParams : q.unlim = {}}}

InitHeadroom ==
    /\ self \in HeadroomWriters
    /\ fs = EmptyFS
    /\ zgroup = None
    /\ last = NoCall
    /\ ncalls = 0
    /\ ndirect = 0

HeadroomAppend ==
    /\ ncalls = 0
    /\ DOMAIN fs.arrays # {}
    /\ \E m \in 1..self.data_model.params.len.t :
          AppendWith([self.data_model.params EXCEPT
                         !.attrs = "b", !.tag = 1, !.len.t = m],
                     "ts", "t")

\* At most one direct call of a helper method.
HeadroomPopulateArray == ndirect = 0 /\ PopulateArrayWith(2)
HeadroomCreateDomainArrays == ndirect = 0 /\ CreateDomainArraysWith
HeadroomPopulateDomainArrays == ndirect = 0 /\ PopulateDomainArraysWith

NextHeadroom ==
    \/ CreateCall
    \/ HeadroomAppend
    \/ HeadroomPopulateArray
    \/ HeadroomCreateDomainArrays
    \/ HeadroomPopulateDomainArrays

SpecHeadroom == InitHeadroom /\ [][NextHeadroom]_vars

(***************************************************************************)
(* Properties.                                                             *)
(***************************************************************************)
DataVars(w) == {w.data_model.data_var_names[i] :
                   i \in 1..Len(w.data_model.data_var_names)}

\* The variable an array path belongs to, and the source length of a dimension.
VarOf(array_filename) == array_filename[Len(array_filename)]
SourceLen(w, dim_name) == w.data_model._ncds_vars[dim_name].shape[1]

\* A dimension is unbounded when the configuration names it or the data model
\* reports it.
IsUnbounded(w, dim_name) ==
    \/ (w.unlimited_dims.kind = "list" /\ InSeq(dim_name, w.unlimited_dims.val))
    \/ dim_name \in w.data_model.unlimited_dim_coords

\* The paths at which create_domains makes an array for variable v.
CreatedPaths(w, v) ==
    {Append(CreateGroupDirname(w, w.data_model.domains[i]), v) :
        i \in {j \in 1..Len(w.data_model.domains) :
                  InSeq(v, w.data_model.domain_varname_mapping[w.data_model.domains[j]])}}

\* The position (1-based) of the append dimension of the last append call.
LastAppendIndex(l) ==
    IndexOf(l.append_dim, VarDimensions(l.var_name, "ok")) + 1

\* C1: with no other method called, every successful append along an unbounded
\* dimension that follows create_domains or a successful append of the same
\* variable along the same dimension is written at the array's extent before it (N), leaves the
\* extent N+M, and leaves the values at indices [0,N) as they were.
C1_AppendAtCurrentExtent ==
    [][(/\ last'.op = "append" /\ last'.status = "ok"
        /\ ndirect' = 0
        /\ IsUnbounded(self, last'.append_dim)
        /\ last.status = "ok"
        /\ \/ last.op = "create_domains"
           \/ /\ last.op = "append"
              /\ last.var_name = last'.var_name
              /\ last.append_dim = last'.append_dim)
       => LET wr == last'.writes[1]
              i == LastAppendIndex(last')
              N == Extent(fs.arrays[wr.array], i)
              M == last'.other.len[last'.append_dim]
          IN /\ wr.indices[i].start = N
             /\ Extent(fs'.arrays[wr.array], i) = N + M
             /\ \A c \in DOMAIN fs.arrays[wr.array].cells :
                   fs'.arrays[wr.array].cells[c] = fs.arrays[wr.array].cells[c]]_vars

\* C2: a bounded dimension of source length N is translated to the domain
\* (0, N-1), which holds exactly N coordinates.
C2_BoundedDimSpan ==
    \A a \in DOMAIN fs.arrays :
        \A i \in 1..Len(fs.arrays[a].schema.domain) :
            LET dim == fs.arrays[a].schema.domain[i]
            IN ~IsUnbounded(self, dim.name) =>
                  dim.domain = <<0, SourceLen(self, dim.name) - 1>>

\* C3: under every writer configuration _create_tdb_dim succeeds for the
\* dimensions of the data model, and a dimension is given the domain
\* (0, INT64_MAX - N), the declared chunk as tile and dtype int64 exactly when
\* it is unbounded.
C3_UnboundedDimTranslation ==
    last.op = "create_domains" =>
        /\ last.at # "_create_tdb_dim"
        /\ \A a \in DOMAIN fs.arrays :
              \A i \in 1..Len(fs.arrays[a].schema.domain) :
                  LET dim == fs.arrays[a].schema.domain[i]
                      N == SourceLen(self, dim.name)
                  IN IF IsUnbounded(self, dim.name)
                     THEN /\ dim.domain = <<0, INT64_MAX - N>>
                          /\ dim.tile = DimChunk(self.data_model, dim.name)
                          /\ dim.dtype = "int64"
                     ELSE dim.domain[2] # INT64_MAX - N

\* The written coordinates of the series stay within the declared domain of
\* `t`, and the append ended without error.
AppendFitsDomain ==
    LET A == fs.arrays[<<"out", "ds", <<"domain_", 0>>, "ts">>]
    IN /\ last.status = "ok"
       /\ \A c \in DOMAIN A.cells : c[1] <= A.schema.domain[1].domain[2]

\* C4 as stated: for an unbounded dimension of any source length N, one append
\* of M <= N elements at offset N stays within the upper bound INT64_MAX - N.
C4_HeadroomAnyLength ==
    (last.op = "append" /\ IsUnbounded(self, "t")) => AppendFitsDomain

\* C4, amended: the same for the source lengths N with 3N - 1 <= INT64_MAX.
C4_HeadroomUpToThird ==
    (/\ last.op = "append" /\ IsUnbounded(self, "t")
     /\ 3 * SourceLen(self, "t") - 1 <= INT64_MAX) => AppendFitsDomain

C4_Witness ==
    /\ last.op = "append" /\ last.status = "ok" /\ IsUnbounded(self, "t")
    /\ SourceLen(self, "t") >= 2
    /\ 3 * SourceLen(self, "t") + 2 > INT64_MAX
    /\ 3 * SourceLen(self, "t") - 1 <= INT64_MAX
    /\ last.other.len.t = SourceLen(self, "t")
    /\ Extent(fs.arrays[<<"out", "ds", <<"domain_", 0>>, "ts">>], 1)
          = 2 * SourceLen(self, "t")

\* The preconditions of append, in the words of the contract.
PreconditionFails(w, params, var_name, append_dim) ==
    \/ var_name \notin w.data_model.params.vars
    \/ var_name \notin params.vars
    \/ ~InSeq(append_dim, VarDimensions(var_name, w.data_model.params.variant))
    \/ ~InSeq(append_dim, VarDimensions(var_name, params.variant))
    \/ VarDimensions(var_name, w.data_model.params.variant)
          # VarDimensions(var_name, params.variant)

\* C5: an append whose variable is absent from either data model, whose append
\* dimension is missing from either dimension tuple or whose dimension tuples
\* differ fails with an assertion failure and writes nothing.
C5_FailedPreconditionNoWrite ==
    [][(/\ last'.op = "append"
        /\ ncalls' = ncalls + 1
        /\ PreconditionFails(self, last'.other, last'.var_name, last'.append_dim))
       => /\ last'.status = "AssertionError"
          /\ last'.writes = <<>>
          /\ fs' = fs]_vars

C5_Witness ==
    /\ last.op = "append" /\ last.status = "AssertionError"
    /\ last.other.variant = "transposed" /\ last.var_name = "temp"
    /\ last.append_dim = "t"
    /\ DOMAIN fs.arrays # {}

\* C6 as stated: with only create_domains and append called, a create_domains
\* run against a location that holds arrays already does not fail on the
\* existing group; it fails on the creation of an array that exists, before
\* any write, and leaves the arrays as they were.
C6_SecondCreateFailsAtArray ==
    [][(last'.op = "create_domains" /\ ndirect = 0 /\ DOMAIN fs.arrays # {})
       => /\ last'.status = "TileDBError"
          /\ last'.at = "tiledb.Array.create"
          /\ last'.writes = <<>>
          /\ fs'.arrays = fs.arrays]_vars

\* C6, amended: an existing plain directory is not an error; create_domains
\* never changes an array that exists already; and, with only create_domains
\* and append called, a create_domains run against a location that holds
\* arrays already fails, on the existing group or on the creation of an array
\* that exists, before any write, and leaves the arrays as they were.
C6_SecondCreateWritesNothing ==
    [][(last'.op = "create_domains")
       => /\ last'.at # "os.makedirs"
          /\ last'.status # "FileExistsError"
          /\ (fs.groups = {} /\ DOMAIN fs.arrays = {}
                /\ self.unlimited_dims.kind # "None")
                => last'.status = "ok"
          /\ \A a \in DOMAIN fs.arrays :
                a \in DOMAIN fs'.arrays /\ fs'.arrays[a] = fs.arrays[a]
          /\ (ndirect = 0 /\ DOMAIN fs.arrays # {})
                => /\ last'.status = "TileDBError"
                   /\ last'.at \in {"tiledb.group_create", "tiledb.Array.create"}
                   /\ last'.writes = <<>>
                   /\ fs'.arrays = fs.arrays]_vars

C6_Witness ==
    /\ ndirect = 0
    /\ last.op = "create_domains" /\ last.status = "TileDBError"
    /\ last.at = "tiledb.Array.create"
    /\ DOMAIN fs.arrays # {}
    /\ \A a \in DOMAIN fs.arrays : DOMAIN fs.arrays[a].cells # {}

\* C7: with only create_domains and append called, the metadata of every
\* array is the attribute set of its variable in the writer's own data model,
\* whatever was appended since.
C7_MetadataFromCreationOnly ==
    ndirect = 0 =>
        \A a \in DOMAIN fs.arrays :
            fs.arrays[a].meta = self.data_model._ncds_vars[VarOf(a)].attrs

C7_Witness ==
    /\ ndirect = 0
    /\ last.op = "append" /\ last.status = "ok"
    /\ NCDataModel(last.other)._ncds_vars[last.var_name].attrs
          = [units |-> "C", note |-> "new"]
    /\ fs.arrays[last.writes[1].array].meta = [units |-> "K"]

\* What is read back for a variable: its extent along every dimension and the
\* values stored.
TDBRead(v) ==
    LET A == fs.arrays[Append(append_domain_path(self, v), v)]
    IN [shape |-> [i \in 1..Len(A.schema.domain) |-> Extent(A, i)],
        cells |-> A.cells]

ZarrRead(v) ==
    [shape |-> zgroup.arrays[v].shape, cells |-> zgroup.arrays[v].cells]

\* C8: while both backends have taken the same calls, create and appends,
\* each without error, each variable reads back the same from the TileDB
\* arrays as from the zarr group.
C8_BackendsAgree ==
    (last.op # "none" /\ last.agree /\ ndirect = 0) =>
        \A v \in DataVars(self) : TDBRead(v) = ZarrRead(v)

\* C9: after a successful create_domains every variable's array holds, in the
\* region [0, extent_i) of each dimension, the source payload, was written at
\* offset zero in every dimension, and carries every source attribute.
C9_RoundTrip ==
    (last.op = "create_domains" /\ last.status = "ok") =>
        /\ \A v \in DataVars(self) :
              \E a \in DOMAIN fs.arrays :
                 LET src == self.data_model._ncds_vars[v]
                 IN /\ VarOf(a) = v
                    /\ fs.arrays[a].cells = src.data
                    /\ \A i \in 1..Len(src.shape) :
                          Extent(fs.arrays[a], i) = src.shape[i]
                    /\ \A k \in DOMAIN src.attrs :
                          /\ k \in DOMAIN fs.arrays[a].meta
                          /\ fs.arrays[a].meta[k] = src.attrs[k]
        /\ Len(last.writes) = Cardinality(DataVars(self))
        /\ \A n \in 1..Len(last.writes) :
              \A i \in 1..Len(last.writes[n].indices) :
                 last.writes[n].indices[i].start = 0

C9_Witness ==
    /\ ndirect = 0
    /\ last.op = "create_domains" /\ last.status = "ok"
    /\ self.data_model.params.len = [t |-> 2, x |-> 2]
    /\ Cardinality(DOMAIN fs.arrays[<<"out", "ds", <<"domain_", 0>>, "temp">>].cells) = 4

\* C10: once create_domains has made the arrays, and with no helper method
\* called directly, the path append opens for a
\* variable is the one path at which create_domains made that variable's
\* array, labelled by the position of the variable's dimension tuple in the
\* domain list; a successful append has written to that array.
C10_AppendResolvesCreatedPath ==
    /\ (ndirect = 0 /\ DOMAIN fs.arrays # {}) =>
          \A v \in DataVars(self) :
             LET path == Append(append_domain_path(self, v), v)
                 dims == self.data_model._ncds_vars[v].dimensions
             IN /\ path \in DOMAIN fs.arrays
                /\ CreatedPaths(self, v) = {path}
                /\ {a \in DOMAIN fs.arrays : VarOf(a) = v} = {path}
                /\ path[3] = <<"domain_", IndexOf(dims, self.data_model.domains)>>
    /\ (last.op = "append" /\ last.status = "ok") =>
          /\ last.writes[1].array \in CreatedPaths(self, last.var_name)
          /\ last.writes[1].array \in DOMAIN fs.arrays

C10_Witness ==
    /\ ndirect = 0
    /\ last.op = "append" /\ last.status = "ok" /\ last.var_name = "h"
    /\ last.writes[1].array = <<"out", "ds", <<"domain_", 1>>, "h">>

====
